---- MODULE Spec2Model ----
(***************************************************************************)
(* Model of trustfall_core/src/ir/indexed.rs: the construction of an       *)
(* IndexedQuery from an IRQuery (IndexedQuery::try_from) by the recursive  *)
(* pass add_data_from_component.  The recursion is modelled with an        *)
(* explicit call stack; every step of the machine is one iteration of one  *)
(* of the loops of add_data_from_component (or one loop exit / return).    *)
(***************************************************************************)
EXTENDS Integers, Sequences, FiniteSets, TLC

VARIABLES ir_query, vids, eids, required_arguments, outputs, stack, result, trace

vars == <<ir_query, vids, eids, required_arguments, outputs, stack, result, trace>>

(***************************************************************************)
(* Bounds of the explored inputs.                                          *)
(***************************************************************************)
MaxVid == 3
MaxEid == 2

Vids == 1..MaxVid
Eids == 1..MaxEid

\* Identities of the IRQueryComponent allocations (Arc pointers).  Component
\* 1 is ir_query.root_component.  A fold of component c may only point to a
\* component with a larger identity: an Arc tree has no cycles.
CompIds == {1, 2, 3}
RootComp == 1

\* Output names and variable/tag names, in the order of Arc<str> (BTreeMap).
NameOrder == <<"a", "b">>
Names == {NameOrder[i] : i \in DOMAIN NameOrder}
NameIndex(n) == CHOOSE i \in DOMAIN NameOrder : NameOrder[i] = n

(***************************************************************************)
(* Finite maps (BTreeMap): functions with a finite domain.                 *)
(***************************************************************************)
EmptyMap == [k \in {} |-> 0]
Put(m, k, v) == [x \in (DOMAIN m) \cup {k} |-> IF x = k THEN v ELSE m[x]]
Del(m, k) == [x \in (DOMAIN m) \ {k} |-> m[x]]

(***************************************************************************)
(* Types (async_graphql_parser::types::Type): a base and a nullable flag.  *)
(***************************************************************************)
NamedType(n, nullable) == [base |-> [kind |-> "Named", name |-> n], nullable |-> nullable]
ListType(t, nullable) == [base |-> [kind |-> "List", of |-> t], nullable |-> nullable]

FieldTypes == { NamedType("String", TRUE),
                NamedType("String", FALSE),
                ListType(NamedType("Int", TRUE), TRUE) }

(***************************************************************************)
(* Filter arguments (Argument): filter.right() is None, a Variable or a    *)
(* Tag.  A Tag names the vertex whose value it refers to.                  *)
(***************************************************************************)
NoArgument == [kind |-> "None"]
Variable(n) == [kind |-> "Variable", variable_name |-> n]
Tag(u, n) == [kind |-> "Tag", vertex_id |-> u, field_name |-> n]

IREdge(from, to) == [from_vid |-> from, to_vid |-> to]
IRFold(from, to, c) == [from_vid |-> from, to_vid |-> to, component |-> c]
ContextField(v, t) == [vertex_id |-> v, field_type |-> t]

IRQueryComponent(root, vertices, edges, folds, outs) ==
    [root |-> root, vertices |-> vertices, edges |-> edges, folds |-> folds,
     outputs |-> outs]

Filter(arg) == [right |-> arg]
IRVertex(filters) == [filters |-> filters]

(***************************************************************************)
(* The explored inputs: every IRQuery within two edits of a seed query.    *)
(* The seeds are queries the pass accepts: one component with two edges,   *)
(* a fold nested in a fold, two sibling folds, and a fold whose component  *)
(* holds an edge numbered below the fold.  An edit changes one entry of    *)
(* one mapping of one component.                                           *)
(***************************************************************************)
NoComponent == IRQueryComponent(1, EmptyMap, EmptyMap, EmptyMap, EmptyMap)

Query(c1, c2, c3) ==
    [root_component |-> RootComp,
     components |-> [c \in CompIds |-> IF c = 1 THEN c1 ELSE IF c = 2 THEN c2 ELSE c3]]

SeedFlat ==
    Query(IRQueryComponent(1,
              Put(Put(Put(EmptyMap, 1, IRVertex(<<>>)), 2, IRVertex(<<Filter(Variable("a"))>>)), 3, IRVertex(<<>>)),
              Put(Put(EmptyMap, 1, IREdge(1, 2)), 2, IREdge(2, 3)),
              EmptyMap,
              Put(EmptyMap, "a", ContextField(1, NamedType("String", TRUE)))),
          NoComponent, NoComponent)

SeedChain ==
    Query(IRQueryComponent(1,
              Put(EmptyMap, 1, IRVertex(<<>>)),
              EmptyMap,
              Put(EmptyMap, 1, IRFold(1, 2, 2)),
              Put(EmptyMap, "a", ContextField(1, NamedType("String", FALSE)))),
          IRQueryComponent(2,
              Put(EmptyMap, 2, IRVertex(<<Filter(Variable("b"))>>)),
              EmptyMap,
              Put(EmptyMap, 2, IRFold(2, 3, 3)),
              EmptyMap),
          IRQueryComponent(3,
              Put(EmptyMap, 3, IRVertex(<<Filter(NoArgument)>>)),
              EmptyMap,
              EmptyMap,
              Put(EmptyMap, "b", ContextField(3, NamedType("String", TRUE)))))

SeedSiblings ==
    Query(IRQueryComponent(1,
              Put(EmptyMap, 1, IRVertex(<<Filter(Variable("a"))>>)),
              EmptyMap,
              Put(Put(EmptyMap, 1, IRFold(1, 2, 2)), 2, IRFold(1, 3, 3)),
              EmptyMap),
          IRQueryComponent(2,
              Put(EmptyMap, 2, IRVertex(<<>>)),
              EmptyMap,
              EmptyMap,
              Put(EmptyMap, "a", ContextField(2, NamedType("String", TRUE)))),
          IRQueryComponent(3,
              Put(EmptyMap, 3, IRVertex(<<>>)),
              EmptyMap,
              EmptyMap,
              Put(EmptyMap, "b", ContextField(3, ListType(NamedType("Int", TRUE), TRUE)))))

SeedBackward ==
    Query(IRQueryComponent(1,
              Put(EmptyMap, 1, IRVertex(<<>>)),
              EmptyMap,
              Put(EmptyMap, 2, IRFold(1, 3, 2)),
              EmptyMap),
          IRQueryComponent(3,
              Put(Put(EmptyMap, 2, IRVertex(<<>>)), 3, IRVertex(<<>>)),
              Put(EmptyMap, 1, IREdge(3, 2)),
              EmptyMap,
              Put(EmptyMap, "b", ContextField(2, NamedType("String", FALSE)))),
          NoComponent)

Seeds == {SeedFlat, SeedChain, SeedSiblings, SeedBackward}

FilterLists ==
    {<<>>, <<Filter(NoArgument)>>, <<Filter(Variable("a"))>>,
     <<Filter(Variable("b")), Filter(Variable("a"))>>}
    \cup {<<Filter(Tag(u, "b"))>> : u \in Vids}

FoldLinks == {l \in CompIds \X CompIds : l[2] > l[1]}

Edits ==
    {[op |-> "NoOp"]}
    \cup {[op |-> "SetRoot", c |-> c, v |-> v] : c \in CompIds, v \in Vids}
    \cup {[op |-> "ToggleVertex", c |-> c, v |-> v] : c \in CompIds, v \in Vids}
    \cup {[op |-> "SetFilters", c |-> c, v |-> v, fs |-> fs] :
             c \in CompIds, v \in Vids, fs \in FilterLists}
    \cup {[op |-> "SetEdge", c |-> c, e |-> e, edge |-> IREdge(f, t)] :
             c \in CompIds, e \in Eids, f \in Vids, t \in Vids}
    \cup {[op |-> "DelEdge", c |-> c, e |-> e] : c \in CompIds, e \in Eids}
    \cup {[op |-> "SetFold", c |-> l[1], e |-> e, fold |-> IRFold(f, t, l[2])] :
             l \in FoldLinks, e \in Eids, f \in Vids, t \in Vids}
    \cup {[op |-> "DelFold", c |-> c, e |-> e] : c \in CompIds, e \in Eids}
    \cup {[op |-> "SetOutput", c |-> c, n |-> n, field |-> ContextField(v, t)] :
             c \in CompIds, n \in Names, v \in Vids, t \in FieldTypes}
    \cup {[op |-> "DelOutput", c |-> c, n |-> n] : c \in CompIds, n \in Names}

EditComponent(comp, e) ==
    CASE e.op = "SetRoot" -> [comp EXCEPT !.root = e.v]
      [] e.op = "ToggleVertex" ->
            [comp EXCEPT !.vertices = IF e.v \in DOMAIN @ THEN Del(@, e.v)
                                      ELSE Put(@, e.v, IRVertex(<<>>))]
      [] e.op = "SetFilters" ->
            [comp EXCEPT !.vertices = IF e.v \in DOMAIN @ THEN Put(@, e.v, IRVertex(e.fs)) ELSE @]
      [] e.op = "SetEdge" -> [comp EXCEPT !.edges = Put(@, e.e, e.edge)]
      [] e.op = "DelEdge" -> [comp EXCEPT !.edges = Del(@, e.e)]
      [] e.op = "SetFold" -> [comp EXCEPT !.folds = Put(@, e.e, e.fold)]
      [] e.op = "DelFold" -> [comp EXCEPT !.folds = Del(@, e.e)]
      [] e.op = "SetOutput" -> [comp EXCEPT !.outputs = Put(@, e.n, e.field)]
      [] e.op = "DelOutput" -> [comp EXCEPT !.outputs = Del(@, e.n)]

ApplyEdit(q, e) ==
    IF e.op = "NoOp" THEN q
    ELSE [q EXCEPT !.components[e.c] = EditComponent(@, e)]

\* the components of the subtree of component c of query q (c included)
RECURSIVE SubTreeOf(_, _)
SubTreeOf(q, c) ==
    {c} \cup UNION {SubTreeOf(q, q.components[c].folds[f].component) :
                       f \in DOMAIN q.components[c].folds}

\* an edit of a component that no fold chain reaches changes nothing the pass sees
Visible(q, e) ==
    IF e.op = "NoOp" THEN TRUE ELSE e.c \in SubTreeOf(q, q.root_component)

(***************************************************************************)
(* The pass.  A frame of the call stack is one activation of               *)
(* add_data_from_component: its component, its fold_depth, the loop it is  *)
(* in and the last key that loop has visited (BTreeMap iteration is in     *)
(* increasing key order; 0 = none visited yet).                            *)
(***************************************************************************)
Frame(c, depth) == [component |-> c, fold_depth |-> depth, pc |-> "root", last |-> 0]

Min(S) == CHOOSE x \in S : \A y \in S : x <= y

Max(S) == CHOOSE x \in S : \A y \in S : x >= y

\* a loop that visits the highest key first and so leaves the others out
NextKeyHighest(keys, last) == Max({k \in keys : k > last})

\* the keys a loop has still to visit, and the next of them
Remaining(keys, last) == {k \in keys : k > last}
NextKey(keys, last) == Min(Remaining(keys, last))

Top == stack[Len(stack)]
Component == ir_query.components[Top.component]

Ok(value) == [tag |-> "Ok", value |-> value]
Err(code) == [tag |-> "Err", code |-> code]
NoError == [tag |-> "None"]

\* `return Err(..)` / `?`: every activation is abandoned, the error is the result
Fail(code) ==
    /\ result' = Err(code)
    /\ stack' = <<>>

Continue(frame) ==
    /\ stack' = [stack EXCEPT ![Len(stack)] = frame]
    /\ UNCHANGED result

Record(phase, key) == trace' = Append(trace, <<Top.component, phase, key>>)

Init ==
    /\ \E s \in Seeds, e1 \in Edits, e2 \in Edits :
          /\ Visible(s, e1)
          /\ Visible(ApplyEdit(s, e1), e2)
          /\ ir_query = ApplyEdit(ApplyEdit(s, e1), e2)
    /\ vids = EmptyMap
    /\ eids = EmptyMap
    /\ required_arguments = {}
    /\ outputs = EmptyMap
    /\ stack = <<Frame(ir_query.root_component, 0)>>
    /\ result = NoError
    /\ trace = <<>>

\* the root vertex Vid must belong to an existing vertex in the component
CheckRoot ==
    /\ stack # <<>>
    /\ Top.pc = "root"
    /\ Record("root", Component.root)
    /\ IF Component.root \notin DOMAIN Component.vertices
       THEN Fail(-1)
       ELSE Continue([Top EXCEPT !.pc = "vertices", !.last = 0])
    /\ UNCHANGED <<ir_query, vids, eids, required_arguments, outputs>>

\* the value `vids.insert` returns is not looked at
VertexErrorIgnored(vid) == NoError

\* `vids.insert(*vid, ..)` found the vid already registered
VertexError(vid) == IF vid \in DOMAIN vids THEN Err(0) ELSE NoError

\* the names of Tag arguments recorded as well
VariableAndTagNames(filters) ==
    {filters[i].right.variable_name :
        i \in {j \in DOMAIN filters : filters[j].right.kind = "Variable"}}
    \cup {filters[i].right.field_name :
        i \in {j \in DOMAIN filters : filters[j].right.kind = "Tag"}}

\* the variable names of the filters of a vertex whose right() is a Variable
VariableNames(filters) ==
    {filters[i].right.variable_name :
        i \in {j \in DOMAIN filters : filters[j].right.kind = "Variable"}}

\* one iteration of `for (vid, vertex) in &component.vertices`
AddVertex ==
    /\ stack # <<>>
    /\ Top.pc = "vertices"
    /\ Remaining(DOMAIN Component.vertices, Top.last) # {}
    /\ LET vid == NextKey(DOMAIN Component.vertices, Top.last)
           vertex == Component.vertices[vid]
           error == VertexError(vid)
       IN /\ Record("vertices", vid)
          /\ vids' = Put(vids, vid, Top.component)
          /\ IF error # NoError
             THEN /\ Fail(error.code)
                  /\ UNCHANGED required_arguments
             ELSE /\ required_arguments' =
                        required_arguments \cup VariableNames(vertex.filters)
                  /\ Continue([Top EXCEPT !.last = vid])
    /\ UNCHANGED <<ir_query, eids, outputs>>

\* the end of a `for` loop over vertices, outputs or edges
LoopExit ==
    /\ stack # <<>>
    /\ \/ /\ Top.pc = "vertices"
          /\ Remaining(DOMAIN Component.vertices, Top.last) = {}
          /\ Continue([Top EXCEPT !.pc = "outputs", !.last = 0])
       \/ /\ Top.pc = "outputs"
          /\ Remaining({NameIndex(n) : n \in DOMAIN Component.outputs}, Top.last) = {}
          /\ Continue([Top EXCEPT !.pc = "edges", !.last = 0])
       \/ /\ Top.pc = "edges"
          /\ Remaining(DOMAIN Component.edges, Top.last) = {}
          /\ Continue([Top EXCEPT !.pc = "folds", !.last = 0])
    /\ UNCHANGED <<ir_query, vids, eids, required_arguments, outputs, trace>>

\* one list layer whatever the depth
WrapTypeOnce(field_type, fold_depth) ==
    IF fold_depth = 0 THEN field_type ELSE ListType(field_type, FALSE)

\* the field type wrapped in fold_depth non-nullable lists
RECURSIVE WrapType(_, _)
WrapType(field_type, fold_depth) ==
    IF fold_depth = 0
    THEN field_type
    ELSE WrapType(ListType(field_type, FALSE), fold_depth - 1)

Output(name, value_type, vid) == [name |-> name, value_type |-> value_type, vid |-> vid]

\* an unregistered vertex reported as a vertex of another component
OutputErrorMerged(field, c) ==
    IF field.vertex_id \notin DOMAIN vids THEN Err(2)
    ELSE IF vids[field.vertex_id] # c THEN Err(2)
    ELSE NoError

\* the output must be from a vertex in this component
OutputError(field, c) ==
    IF field.vertex_id \notin DOMAIN vids THEN Err(1)
    ELSE IF vids[field.vertex_id] # c THEN Err(2)
    ELSE NoError

\* one iteration of `for (output_name, field) in component.outputs.iter()`
AddOutput ==
    /\ stack # <<>>
    /\ Top.pc = "outputs"
    /\ Remaining({NameIndex(n) : n \in DOMAIN Component.outputs}, Top.last) # {}
    /\ LET index == NextKey({NameIndex(n) : n \in DOMAIN Component.outputs}, Top.last)
           output_name == NameOrder[index]
           field == Component.outputs[output_name]
           output_vid == field.vertex_id
           output_type == WrapType(field.field_type, Top.fold_depth)
           existing == output_name \in DOMAIN outputs
           error == OutputError(field, Top.component)
       IN /\ Record("outputs", output_name)
          /\ IF error # NoError
             THEN Fail(error.code) /\ UNCHANGED outputs
             ELSE /\ outputs' = Put(outputs, output_name,
                                    Output(output_name, output_type, output_vid))
                  /\ IF existing
                     THEN Fail(3)
                     ELSE Continue([Top EXCEPT !.last = index])
    /\ UNCHANGED <<ir_query, vids, eids, required_arguments>>

Regular(edge) == [kind |-> "Regular", edge |-> edge]
Fold(fold) == [kind |-> "Fold", fold |-> fold]

\* the Eid + 1 check of a regular edge left out
EdgeErrorNoIdCheck(eid, edge, c) ==
    IF edge.from_vid \notin DOMAIN vids THEN Err(5)
    ELSE IF vids[edge.from_vid] # c THEN Err(6)
    ELSE IF edge.to_vid \notin DOMAIN vids THEN Err(7)
    ELSE IF vids[edge.to_vid] # c THEN Err(8)
    ELSE NoError

\* the "to" vertex must have Vid equal to the edge's Eid + 1, and the edge's
\* endpoints must be vertices from this component
EdgeError(eid, edge, c) ==
    IF eid + 1 # edge.to_vid THEN Err(4)
    ELSE IF edge.from_vid \notin DOMAIN vids THEN Err(5)
    ELSE IF vids[edge.from_vid] # c THEN Err(6)
    ELSE IF edge.to_vid \notin DOMAIN vids THEN Err(7)
    ELSE IF vids[edge.to_vid] # c THEN Err(8)
    ELSE NoError

\* the owner of the "from" vertex of a fold left unchecked
FoldErrorNoFromOwner(eid, fold, c) ==
    IF eid + 1 # fold.to_vid THEN Err(10)
    ELSE IF fold.from_vid \notin DOMAIN vids THEN Err(11)
    ELSE IF fold.to_vid # ir_query.components[fold.component].root THEN Err(13)
    ELSE NoError

\* the first check of a fold made against the root of the fold component
FoldErrorRootFirst(eid, fold, c) ==
    IF eid + 1 # ir_query.components[fold.component].root THEN Err(10)
    ELSE IF fold.from_vid \notin DOMAIN vids THEN Err(11)
    ELSE IF vids[fold.from_vid] # c THEN Err(12)
    ELSE IF fold.to_vid # ir_query.components[fold.component].root THEN Err(13)
    ELSE NoError

\* the "to" vertex must have Vid equal to the folded edge's Eid + 1, the "from"
\* vertex must be from this component, the "to" vertex must be the root of
\* the fold component
FoldError(eid, fold, c) ==
    IF eid + 1 # fold.to_vid THEN Err(10)
    ELSE IF fold.from_vid \notin DOMAIN vids THEN Err(11)
    ELSE IF vids[fold.from_vid] # c THEN Err(12)
    ELSE IF fold.to_vid # ir_query.components[fold.component].root THEN Err(13)
    ELSE NoError

\* one iteration of `for (eid, edge) in component.edges.iter()`
AddEdge ==
    /\ stack # <<>>
    /\ Top.pc = "edges"
    /\ Remaining(DOMAIN Component.edges, Top.last) # {}
    /\ LET eid == NextKey(DOMAIN Component.edges, Top.last)
           edge == Component.edges[eid]
           existing == eid \in DOMAIN eids
           error == EdgeError(eid, edge, Top.component)
       IN /\ Record("edges", eid)
          /\ IF error # NoError
             THEN Fail(error.code) /\ UNCHANGED eids
             ELSE /\ eids' = Put(eids, eid, Regular(edge))
                  /\ IF existing
                     THEN Fail(9)
                     ELSE Continue([Top EXCEPT !.last = eid])
    /\ UNCHANGED <<ir_query, vids, required_arguments, outputs>>

\* one iteration of `for (eid, fold) in component.folds.iter()`, up to and
\* including the recursive call: the callee's activation is pushed
AddFold ==
    /\ stack # <<>>
    /\ Top.pc = "folds"
    /\ Remaining(DOMAIN Component.folds, Top.last) # {}
    /\ LET eid == NextKey(DOMAIN Component.folds, Top.last)
           fold == Component.folds[eid]
           existing == eid \in DOMAIN eids
           new_fold_depth == Top.fold_depth + 1
           error == FoldError(eid, fold, Top.component)
       IN /\ Record("folds", eid)
          /\ IF error # NoError
             THEN Fail(error.code) /\ UNCHANGED eids
             ELSE /\ eids' = Put(eids, eid, Fold(fold))
                  /\ IF existing
                     THEN Fail(14)
                     ELSE /\ stack' = Append([stack EXCEPT ![Len(stack)].last = eid],
                                             Frame(fold.component, new_fold_depth))
                          /\ UNCHANGED result
    /\ UNCHANGED <<ir_query, vids, required_arguments, outputs>>

IndexedQuery ==
    [ir_query |-> ir_query, vids |-> vids, eids |-> eids,
     required_arguments |-> required_arguments, outputs |-> outputs]

\* the end of the loop over the folds: `Ok(())`; the outermost activation
\* returns to try_from, which builds the IndexedQuery
Return ==
    /\ stack # <<>>
    /\ Top.pc = "folds"
    /\ Remaining(DOMAIN Component.folds, Top.last) = {}
    /\ stack' = SubSeq(stack, 1, Len(stack) - 1)
    /\ result' = IF Len(stack) = 1 THEN Ok(IndexedQuery) ELSE result
    /\ UNCHANGED <<ir_query, vids, eids, required_arguments, outputs, trace>>

Next ==
    \/ CheckRoot
    \/ AddVertex
    \/ LoopExit
    \/ AddOutput
    \/ AddEdge
    \/ AddFold
    \/ Return

Spec == Init /\ [][Next]_vars

(***************************************************************************)
(* The query as a tree, described without reference to the pass.           *)
(***************************************************************************)
Components == ir_query.components
Success == result.tag = "Ok"
Failure == result.tag = "Err"
Finished == result # NoError

Range(m) == {m[k] : k \in DOMAIN m}

\* the components of the subtree of component c (c included)
SubTree(c) == SubTreeOf(ir_query, c)

Tree == SubTree(ir_query.root_component)

\* the ids of the edges and folds of component c and of its subtree
OwnEids(c) == (DOMAIN Components[c].edges) \cup (DOMAIN Components[c].folds)
SubTreeEids(c) == UNION {OwnEids(d) : d \in SubTree(c)}

IsInterval(S) == \A x \in S, y \in S : \A z \in x..y : z \in S

\* the ids of the edges and folds (anywhere in the tree) whose `to` side is v
EidsInto(v) ==
    UNION {{e \in DOMAIN Components[c].edges : Components[c].edges[e].to_vid = v}
           \cup {e \in DOMAIN Components[c].folds : Components[c].folds[e].to_vid = v}
           : c \in Tree}

\* the vertices the Tag filters of vertex v of component c refer to
TaggedVids(c, v) ==
    LET filters == Components[c].vertices[v].filters
    IN {filters[i].right.vertex_id :
           i \in {j \in DOMAIN filters : filters[j].right.kind = "Tag"}}

(***************************************************************************)
(* C1: on success, the ids of the edges and folds of every component and   *)
(* of its nested fold components form an interval without gaps, and a      *)
(* component entered via fold f has f + 1 as the lowest id of its interval.*)
(***************************************************************************)
C1_IntervalContiguity ==
    Success =>
        \A c \in Tree :
            /\ IsInterval(SubTreeEids(c))
            /\ \A p \in Tree : \A f \in DOMAIN Components[p].folds :
                  (Components[p].folds[f].component = c /\ SubTreeEids(c) # {})
                      => Min(SubTreeEids(c)) = f + 1

(***************************************************************************)
(* C2: on success, a vertex u whose value a Tag filter of vertex v refers  *)
(* to is the `to` side of an edge or fold with a strictly lower id than    *)
(* the edge or fold whose `to` side is v.                                  *)
(***************************************************************************)
C2_TagExpandedBeforeUse ==
    Success =>
        \A c \in Tree : \A v \in DOMAIN Components[c].vertices :
            \A u \in TaggedVids(c, v) :
                \A eu \in EidsInto(u), ev \in EidsInto(v) : eu < ev

Last(s) == s[Len(s)]
IsPrefix(s, t) == Len(s) <= Len(t) /\ SubSeq(t, 1, Len(s)) = s

\* the folds (parent, fold id) that enter component c
FoldsInto(c) ==
    {l \in Tree \X Eids :
        l[2] \in DOMAIN Components[l[1]].folds
        /\ Components[l[1]].folds[l[2]].component = c}

\* the number of fold boundaries between the root component and c, for a
\* component that is entered by exactly one fold
RECURSIVE Depth(_)
Depth(c) ==
    IF c = ir_query.root_component THEN 0
    ELSE 1 + Depth((CHOOSE l \in FoldsInto(c) : TRUE)[1])

\* t is leaf under exactly n list layers, each of them non-nullable
RECURSIVE IsWrapped(_, _, _)
IsWrapped(t, leaf, n) ==
    IF n = 0 THEN t = leaf
    ELSE /\ t.base.kind = "List"
         /\ t.nullable = FALSE
         /\ IsWrapped(t.base.of, leaf, n - 1)

(***************************************************************************)
(* C3 as stated: when an output of the root component names a vertex       *)
(* declared only in a nested fold component, and no earlier check fails,   *)
(* construction fails with GetBetterVariant(2).                            *)
(***************************************************************************)
RootComponent == Components[ir_query.root_component]

\* the outputs of the root component that name a vertex of a nested component
\* and of no other; no check before the first of them fails
ForeignRootOutputs ==
    {n \in DOMAIN RootComponent.outputs :
        /\ RootComponent.outputs[n].vertex_id \notin DOMAIN RootComponent.vertices
        /\ \E c \in Tree \ {ir_query.root_component} :
              RootComponent.outputs[n].vertex_id \in DOMAIN Components[c].vertices}

C3Case ==
    /\ RootComponent.root \in DOMAIN RootComponent.vertices
    /\ ForeignRootOutputs # {}
    /\ \A n \in DOMAIN RootComponent.outputs :
          RootComponent.outputs[n].vertex_id \in DOMAIN RootComponent.vertices
          \/ n \in ForeignRootOutputs

C3_OutputVertexWrongComponent ==
    (Finished /\ C3Case) => result = Err(2)

(***************************************************************************)
(* C3 amended: in that case construction fails with GetBetterVariant(1):   *)
(* the vertices of nested components are not yet in the vertex index when  *)
(* the outputs of the root component are resolved.                         *)
(***************************************************************************)
C3_DanglingOutputVertex ==
    (Finished /\ C3Case) =>
        /\ result = Err(1)
        /\ Last(trace)[1] = ir_query.root_component
        /\ Last(trace)[2] = "outputs"
        /\ Last(trace)[3] \in ForeignRootOutputs

C3_Witness ==
    /\ Finished
    /\ C3Case
    /\ result = Err(1)
    /\ Tree # {ir_query.root_component}

(***************************************************************************)
(* C4: a query in which two components declare the same vertex id is never *)
(* accepted, and GetBetterVariant(0) is returned exactly at the second     *)
(* registration of a vertex id; on success the keys of vids are the vertex *)
(* ids declared in the tree and each maps to the one component declaring   *)
(* it.                                                                     *)
(***************************************************************************)
Declaring(v) == {c \in Tree : v \in DOMAIN Components[c].vertices}
DeclaredVids == UNION {DOMAIN Components[c].vertices : c \in Tree}

C4_VertexIdsUnique ==
    /\ Success =>
          /\ DOMAIN result.value.vids = DeclaredVids
          /\ \A v \in DeclaredVids : Declaring(v) = {result.value.vids[v]}
    /\ result = Err(0) =>
          /\ Last(trace)[2] = "vertices"
          /\ \E i \in 1..(Len(trace) - 1) :
                trace[i][2] = "vertices" /\ trace[i][3] = Last(trace)[3]
    /\ \A i \in DOMAIN trace, j \in DOMAIN trace :
          (i < j /\ trace[i][2] = "vertices" /\ trace[j][2] = "vertices"
                 /\ trace[i][3] = trace[j][3])
              => (j = Len(trace) /\ result = Err(0))

C4_Witness ==
    /\ Success
    /\ Cardinality(Tree) = 3
    /\ Cardinality(DeclaredVids) = 3

(***************************************************************************)
(* C5: on success every entry of eids with key e, Regular or Fold, has a   *)
(* `to` vertex id of e + 1, and no regular edge or fold of the tree has    *)
(* another `to` vertex id; GetBetterVariant(4) is returned only for a      *)
(* regular edge whose `to` vertex id is not its id plus one.               *)
(***************************************************************************)
ToVid(kind) == IF kind.kind = "Regular" THEN kind.edge.to_vid ELSE kind.fold.to_vid

C5_ToVidIsEidPlusOne ==
    /\ Success =>
          /\ \A e \in DOMAIN result.value.eids : ToVid(result.value.eids[e]) = e + 1
          /\ \A c \in Tree :
                /\ \A e \in DOMAIN Components[c].edges :
                      Components[c].edges[e].to_vid = e + 1
                /\ \A e \in DOMAIN Components[c].folds :
                      Components[c].folds[e].to_vid = e + 1
    /\ result = Err(4) =>
          /\ Last(trace)[2] = "edges"
          /\ Components[Last(trace)[1]].edges[Last(trace)[3]].to_vid # Last(trace)[3] + 1
    /\ \A i \in DOMAIN trace :
          (trace[i][2] = "edges"
           /\ Components[trace[i][1]].edges[trace[i][3]].to_vid # trace[i][3] + 1)
              => (i = Len(trace) /\ result = Err(4))

C5_Witness ==
    /\ Success
    /\ \E e \in DOMAIN result.value.eids : result.value.eids[e].kind = "Regular"
    /\ \E e \in DOMAIN result.value.eids : result.value.eids[e].kind = "Fold"

(***************************************************************************)
(* C6: on success the entry of outputs under the name of an output         *)
(* declared N fold boundaries below the root has the declared vertex id    *)
(* and the declared field type under exactly N non-nullable list layers.   *)
(***************************************************************************)
C6_OutputTypeWrapped ==
    Success =>
        \A c \in Tree : \A n \in DOMAIN Components[c].outputs :
            /\ n \in DOMAIN result.value.outputs
            /\ result.value.outputs[n].name = n
            /\ result.value.outputs[n].vid = Components[c].outputs[n].vertex_id
            /\ IsWrapped(result.value.outputs[n].value_type,
                         Components[c].outputs[n].field_type, Depth(c))

C6_Witness ==
    /\ Success
    /\ \E c \in Tree : Depth(c) = 2 /\ Components[c].outputs # EmptyMap
    /\ RootComponent.outputs # EmptyMap

(***************************************************************************)
(* C7: on success the keys of required_arguments are exactly the variable  *)
(* names that are the right-hand Variable argument of a filter of a vertex *)
(* of a component of the tree.                                             *)
(***************************************************************************)
FilterArguments ==
    UNION {UNION {{vx.filters[i].right : i \in DOMAIN vx.filters}
                  : vx \in Range(Components[c].vertices)}
           : c \in Tree}

C7_RequiredArguments ==
    Success =>
        result.value.required_arguments =
            {a.variable_name : a \in {x \in FilterArguments : x.kind = "Variable"}}

C7_Witness ==
    /\ Success
    /\ \E a \in FilterArguments : a.kind = "Variable"
    /\ \E a \in FilterArguments :
          a.kind = "Tag" /\ a.field_name \notin result.value.required_arguments
    /\ \E a \in FilterArguments : a.kind = "None"

(***************************************************************************)
(* C8: on success vids maps both endpoints of every Regular edge of eids   *)
(* to the component declaring the edge, and the `from` vertex of every     *)
(* Fold to the component declaring the fold; the `to` vertex of the fold   *)
(* is the root of the fold's component, which vids maps to that component. *)
(***************************************************************************)
Owns(c, v) == v \in DOMAIN result.value.vids /\ result.value.vids[v] = c

C8_EndpointsOwned ==
    Success =>
        \A c \in Tree :
            /\ \A e \in DOMAIN Components[c].edges :
                  /\ e \in DOMAIN result.value.eids
                  /\ result.value.eids[e] = Regular(Components[c].edges[e])
                  /\ Owns(c, Components[c].edges[e].from_vid)
                  /\ Owns(c, Components[c].edges[e].to_vid)
            /\ \A e \in DOMAIN Components[c].folds :
                  /\ e \in DOMAIN result.value.eids
                  /\ result.value.eids[e] = Fold(Components[c].folds[e])
                  /\ Owns(c, Components[c].folds[e].from_vid)
                  /\ Components[c].folds[e].to_vid =
                        Components[Components[c].folds[e].component].root
                  /\ Owns(Components[c].folds[e].component, Components[c].folds[e].to_vid)

C8_Witness ==
    /\ Success
    /\ \E c \in Tree \ {ir_query.root_component} : Components[c].edges # EmptyMap
    /\ \E e \in DOMAIN result.value.eids : result.value.eids[e].kind = "Fold"

(***************************************************************************)
(* The order of the checks as C9 states it: per component the root, the    *)
(* vertices, the outputs, the regular edges by increasing id, then the     *)
(* folds by increasing id, each followed by the whole of its component.    *)
(***************************************************************************)
RECURSIVE Ascending(_)
Ascending(S) == IF S = {} THEN <<>> ELSE <<Min(S)>> \o Ascending(S \ {Min(S)})

Events(c, phase, keys) == [i \in DOMAIN keys |-> <<c, phase, keys[i]>>]

RECURSIVE Plan(_), FoldPlans(_, _)
Plan(c) ==
    <<<<c, "root", Components[c].root>>>>
    \o Events(c, "vertices", Ascending(DOMAIN Components[c].vertices))
    \o Events(c, "outputs",
              [i \in DOMAIN Ascending({NameIndex(n) : n \in DOMAIN Components[c].outputs})
                  |-> NameOrder[Ascending({NameIndex(n) : n \in DOMAIN Components[c].outputs})[i]]])
    \o Events(c, "edges", Ascending(DOMAIN Components[c].edges))
    \o FoldPlans(c, Ascending(DOMAIN Components[c].folds))
FoldPlans(c, fs) ==
    IF fs = <<>> THEN <<>>
    ELSE <<<<c, "folds", fs[1]>>>>
         \o Plan(Components[c].folds[fs[1]].component)
         \o FoldPlans(c, Tail(fs))

\* the failures each kind of check can return
PhaseCodes(phase) ==
    CASE phase = "root" -> {-1}
      [] phase = "vertices" -> {0}
      [] phase = "outputs" -> {1, 2, 3}
      [] phase = "edges" -> {4, 5, 6, 7, 8, 9}
      [] phase = "folds" -> {10, 11, 12, 13, 14}

\* the failures a check must return whatever the indices hold, if any
ViolationCodes(ev) ==
    LET comp == Components[ev[1]]
    IN CASE ev[2] = "root" ->
                IF comp.root \notin DOMAIN comp.vertices THEN {-1} ELSE {}
         [] ev[2] = "edges" ->
                IF comp.edges[ev[3]].to_vid # ev[3] + 1 THEN {4} ELSE {}
         [] ev[2] = "folds" ->
                IF comp.folds[ev[3]].to_vid # ev[3] + 1 THEN {10}
                ELSE IF comp.folds[ev[3]].to_vid # Components[comp.folds[ev[3]].component].root
                THEN {11, 12, 13}
                ELSE {}
         [] OTHER -> {}

(***************************************************************************)
(* C9: the checks happen in the depth-first order of Plan; the failure     *)
(* returned belongs to the first failing check of that order, every check  *)
(* before it having passed; success is returned only after every check,    *)
(* and a failure carries no index.                                         *)
(***************************************************************************)
C9_DepthFirstOrder ==
    /\ IsPrefix(trace, Plan(ir_query.root_component))
    /\ Success => trace = Plan(ir_query.root_component)
    /\ Failure =>
          /\ trace # <<>>
          /\ result.code \in PhaseCodes(Last(trace)[2])
          /\ DOMAIN result = {"tag", "code"}
    /\ \A i \in DOMAIN trace :
          ViolationCodes(trace[i]) # {} =>
              /\ i = Len(trace)
              /\ Failure
              /\ result.code \in ViolationCodes(trace[i])

\* two sibling folds f1 < f2 of the root component, a violation in the
\* component of each: the failure returned is that of f1's component
C9_Witness ==
    /\ Failure
    /\ \E f1 \in DOMAIN RootComponent.folds, f2 \in DOMAIN RootComponent.folds :
          /\ f1 < f2
          /\ RootComponent.folds[f1].component # RootComponent.folds[f2].component
          /\ Last(trace)[1] = RootComponent.folds[f1].component
          /\ ViolationCodes(Last(trace)) # {}
          /\ \E ev \in Range(Plan(RootComponent.folds[f2].component)) :
                ViolationCodes(ev) # {}

(***************************************************************************)
(* C10 as stated: the first check of a fold compares fold id + 1 with the  *)
(* root vertex id of the fold's component, and fails with                  *)
(* GetBetterVariant(10) if they differ.                                    *)
(***************************************************************************)
TracedFold(i) == Components[trace[i][1]].folds[trace[i][3]]
FoldRoot(fold) == Components[fold.component].root

C10_FoldIdVsNestedRoot ==
    \A i \in DOMAIN trace :
        (trace[i][2] = "folds" /\ trace[i][3] + 1 # FoldRoot(TracedFold(i)))
            => result = Err(10)

(***************************************************************************)
(* C10 amended: the first check of a fold compares fold id + 1 with the    *)
(* fold's own `to` vertex id and fails with GetBetterVariant(10) if they   *)
(* differ; a fold whose `to` vertex id is fold id + 1 but whose component  *)
(* declares another root fails with GetBetterVariant(13), unless its       *)
(* `from` vertex is not registered (11) or not of this component (12).     *)
(***************************************************************************)
C10_FoldIdVsToVid ==
    \A i \in DOMAIN trace :
        trace[i][2] = "folds" =>
            IF trace[i][3] + 1 # TracedFold(i).to_vid
            THEN i = Len(trace) /\ result = Err(10)
            ELSE /\ i = Len(trace) => result # Err(10)
                 /\ TracedFold(i).to_vid # FoldRoot(TracedFold(i)) =>
                       /\ i = Len(trace)
                       /\ result = IF TracedFold(i).from_vid \notin DOMAIN vids THEN Err(11)
                                   ELSE IF vids[TracedFold(i).from_vid] # trace[i][1]
                                   THEN Err(12)
                                   ELSE Err(13)

C10_Witness ==
    /\ result = Err(13)
    /\ Last(trace)[3] + 1 = TracedFold(Len(trace)).to_vid
    /\ Last(trace)[3] + 1 # FoldRoot(TracedFold(Len(trace)))

====
